---- MODULE Spec2Model ----
(***************************************************************************)
(* brew-manage: the dependency-graph tool (brew-deps-graph.py) and the     *)
(* batch of queries that writes its input (brew-info.py).                  *)
(*                                                                         *)
(* A package name is a Python str, modelled as the tuple of its code       *)
(* points, so that the empty name is <<>> and sorted() compares names the  *)
(* way Python compares strings.  A formula entry of the JSON input is a    *)
(* Python dict, modelled as a function whose DOMAIN is the set of fields   *)
(* the entry carries.  The graph is a Python dict, which keeps its keys in *)
(* insertion order: keys is that order, rec the mapping.                   *)
(***************************************************************************)
EXTENDS Integers, Sequences, FiniteSets, TLC

VARIABLES
    formulas,    \* the input list handed to build_dependency_graph
    graph,       \* the dict built from it: [keys |-> insertion order, rec |-> key -> record]
    pc,          \* "start" (nothing built), "idle" (graph built), "tree" (a traversal
                 \* runs), "done" (the query of this run has returned)
    stack,       \* the activations of print_tree / print_reverse_tree, innermost last
    out,         \* the lines printed by the running or last traversal, in print order
    call,        \* the function and arguments of the running or last traversal
    err,         \* "none", or the exception a statement raised
    ret,         \* the function, arguments and return value of the last analysis call
    first,       \* an earlier call on the graph and its result, kept to compare a
                 \* repetition of the call with
    batch        \* the run of brew-info.py's main: its inputs, worker pool and lists

vars == <<formulas, graph, pc, stack, out, call, err, ret, first, batch>>

---------------------------------------------------------------------------
(* Bounds of the inputs and arguments.                                      *)

MaxEntries == 2     \* entries of an input list
MaxEdges == 3       \* edge-list items of an input list, all entries together
MaxDepthArg == 2    \* largest max_depth argument tried (the smallest is -2)
MaxTopN == 2        \* largest top_n argument tried (the smallest is 0)

---------------------------------------------------------------------------
(* Names and their order.                                                  *)

A == <<65>>
B == <<66>>
C == <<67>>
AB == <<65, 66>>

TreeNames == {A, B, C}
RankNames == {A, AB, B}

\* Python's str "<": the first differing code point decides, a proper prefix is smaller.
RECURSIVE StrLess(_, _)
StrLess(s, t) ==
    IF t = <<>> THEN FALSE
    ELSE IF s = <<>> THEN TRUE
    ELSE IF Head(s) # Head(t) THEN Head(s) < Head(t)
    ELSE StrLess(Tail(s), Tail(t))

\* sorted(names) is a stable sort: each element, from the last to the first, goes
\* before the first element that is not smaller than it.
RECURSIVE InsertByName(_, _)
InsertByName(x, s) ==
    IF s = <<>> THEN <<x>>
    ELSE IF ~StrLess(Head(s), x) THEN <<x>> \o s
    ELSE <<Head(s)>> \o InsertByName(x, Tail(s))

RECURSIVE sorted(_)
sorted(s) == IF s = <<>> THEN <<>> ELSE InsertByName(Head(s), sorted(Tail(s)))

\* sorted(items, key=lambda x: x[1], reverse=True) is stable too: items of equal count
\* keep the order they had.  An item is a pair <<name, count>>.
RECURSIVE InsertByCountDesc(_, _)
InsertByCountDesc(x, s) ==
    IF s = <<>> THEN <<x>>
    ELSE IF ~(Head(s)[2] > x[2]) THEN <<x>> \o s
    ELSE <<Head(s)>> \o InsertByCountDesc(x, Tail(s))

RECURSIVE sorted_by_count_desc(_)
sorted_by_count_desc(s) ==
    IF s = <<>> THEN <<>> ELSE InsertByCountDesc(Head(s), sorted_by_count_desc(Tail(s)))

Range(s) == {s[i] : i \in 1..Len(s)}

RECURSIVE SeqSum(_)
SeqSum(s) == IF s = <<>> THEN 0 ELSE Head(s) + SeqSum(Tail(s))

---------------------------------------------------------------------------
(* build_dependency_graph                                                  *)

EmptyDict == [keys |-> <<>>, rec |-> <<>>]

Keys(g) == Range(g.keys)

\* dict.get(field, default)
Get(d, field, default) == IF field \in DOMAIN d THEN d[field] ELSE default

\* `if not name`: formula.get("name") is None (field absent) or the empty string
NoName(formula) == "name" \notin DOMAIN formula \/ formula["name"] = <<>>

\* the dict literal of lines 51-56
Record(formula) ==
    [dependencies |-> Get(formula, "dependencies", <<>>),
     required_by  |-> Get(formula, "required_by", <<>>),
     description  |-> Get(formula, "description", ""),
     version      |-> Get(formula, "version", "")]

\* graph.setdefault(name, value) in place of the assignment: the first entry wins
DictSetDefault(g, name, value) ==
    IF name \in Keys(g) THEN g
    ELSE [keys |-> Append(g.keys, name),
          rec  |-> [k \in Keys(g) \cup {name} |-> IF k = name THEN value ELSE g.rec[k]]]

\* graph[name] = value: a new key goes to the end, an old key keeps its place
DictSet(g, name, value) ==
    [keys |-> IF name \in Keys(g) THEN g.keys ELSE Append(g.keys, name),
     rec  |-> [k \in Keys(g) \cup {name} |-> IF k = name THEN value ELSE g.rec[k]]]

\* one iteration of `for formula in formulas`
BuildOne(g, formula) ==
    IF NoName(formula) THEN g ELSE DictSet(g, formula["name"], Record(formula))

RECURSIVE BuildFrom(_, _)
BuildFrom(g, fs) == IF fs = <<>> THEN g ELSE BuildFrom(BuildOne(g, Head(fs)), Tail(fs))

build_dependency_graph(fs) == BuildFrom(EmptyDict, fs)

---------------------------------------------------------------------------
(* The analyses: find_root_packages .. print_statistics                    *)

\* graph.values(), in the dict's order
Values(g) == [i \in 1..Len(g.keys) |-> g.rec[g.keys[i]]]

\* all_deps after the loop of lines 212-213
AllDeps(g) == UNION {Range(g.rec[k].dependencies) : k \in Keys(g)}

\* a package's own edge list left out of all_deps
IsRootButForItself(g, pkg) ==
    pkg \notin UNION {Range(g.rec[k].dependencies) : k \in Keys(g) \ {pkg}}

\* the test of the comprehension of line 215
IsRoot(g, pkg) == pkg \notin AllDeps(g)

find_root_packages(g) == sorted(SelectSeq(g.keys, LAMBDA pkg : IsRoot(g, pkg)))

\* the reverse edges tested in place of the forward ones
IsLeafByRequiredBy(g, pkg) == g.rec[pkg].required_by = <<>>

\* the test of the comprehension of line 221: `not data["dependencies"]`
IsLeaf(g, pkg) == g.rec[pkg].dependencies = <<>>

find_leaf_packages(g) == sorted(SelectSeq(g.keys, LAMBDA pkg : IsLeaf(g, pkg)))

\* dep_count[dep] += 1 on a defaultdict(int), kept as its items in insertion order
Increment(dc, dep) ==
    IF \E i \in 1..Len(dc) : dc[i][1] = dep
    THEN [i \in 1..Len(dc) |-> IF dc[i][1] = dep THEN <<dep, dc[i][2] + 1>> ELSE dc[i]]
    ELSE Append(dc, <<dep, 1>>)

\* the inner loop of lines 230-231
RECURSIVE CountList(_, _)
CountList(dc, deps) ==
    IF deps = <<>> THEN dc ELSE CountList(Increment(dc, Head(deps)), Tail(deps))

\* the outer loop of lines 229-231
RECURSIVE CountAll(_, _)
CountAll(dc, values) ==
    IF values = <<>> THEN dc
    ELSE CountAll(CountList(dc, Head(values).dependencies), Tail(values))

\* s[:n]: a negative n counts from the end
Slice(s, n) ==
    IF n >= 0 THEN SubSeq(s, 1, IF n < Len(s) THEN n ELSE Len(s))
    ELSE SubSeq(s, 1, IF Len(s) + n > 0 THEN Len(s) + n ELSE 0)

Reverse(s) == [i \in 1..Len(s) |-> s[Len(s) + 1 - i]]

\* sorted(...)[::-1] in place of reverse=True: equal counts come out in reverse order
RankAscendingReversed(items) == sorted_by_count_desc(Reverse(items))

\* the ordering of line 233
RankDepended(items) == sorted_by_count_desc(items)

find_most_depended_on(g, n) == Slice(RankDepended(CountAll(<<>>, Values(g))), n)

\* pkg_deps of line 239
PkgDeps(g) == [i \in 1..Len(g.keys) |-> <<g.keys[i], Len(g.rec[g.keys[i]].dependencies)>>]

find_most_dependencies(g, n) == Slice(sorted_by_count_desc(PkgDeps(g)), n)

TopTen == 10

\* what print_statistics computes and prints; avg_deps is kept as the quotient it is
print_statistics(g) ==
    LET total_packages == Len(g.keys)
        total_dependencies == SeqSum([i \in 1..Len(g.keys) |-> Len(Values(g)[i].dependencies)])
    IN  [total_packages |-> total_packages,
         total_dependencies |-> total_dependencies,
         avg_deps |-> IF total_packages > 0
                      THEN [num |-> total_dependencies, den |-> total_packages]
                      ELSE [num |-> 0, den |-> 1],
         roots |-> find_root_packages(g),
         leaves |-> find_leaf_packages(g),
         most_depended |-> find_most_depended_on(g, TopTen),
         most_deps |-> find_most_dependencies(g, TopTen)]

---------------------------------------------------------------------------
(* print_tree and print_reverse_tree.                                      *)
(*                                                                         *)
(* The two functions differ in the edge list they follow and in the text   *)
(* of the count.  An activation is a frame of the stack; a printed line is *)
(* kept as its parts: the prefix as the list of its four-character         *)
(* segments, the connector, the package, what the line says of it (status, *)
(* count) and the current_depth of the activation that printed it.  Colour *)
(* codes and the version suffix are left out.                              *)

Blank == "    "
Guide == "|   "     \* stands for the box-drawing guide of line 122
Corner == "'-- "    \* stands for the corner connector of line 96
Tee == "|-- "       \* stands for the tee connector of line 96

\* `for i, dep in enumerate(sorted(dependencies))`: the edge list put in order
EdgesSorted(g, op, package) ==
    sorted(IF op = "print_tree" THEN g.rec[package].dependencies
           ELSE g.rec[package].required_by)

\* the edge list the function follows: lines 120 and 191
Edges(g, op, package) ==
    IF op = "print_tree" THEN g.rec[package].dependencies ELSE g.rec[package].required_by

\* `>` in place of `>=`
DepthExceeded(max_depth, current_depth) == max_depth >= 0 /\ current_depth > max_depth

\* line 83 / 159
DepthReached(max_depth, current_depth) == max_depth >= 0 /\ current_depth >= max_depth

\* the membership test left out
NotInGraphUnchecked(g, package) == FALSE

\* line 87 / 162
NotInGraph(g, package) == package \notin Keys(g)

\* line 105 / 175
IsCircular(package, visited) == package \in visited

\* visited.add left out
VisitNothing(visited, package) == visited

\* line 117 / 189
Visit(visited, package) == visited \cup {package}

\* the unlimited case (max_depth < 0) left out
DescendsWithinBound(edges, max_depth, current_depth) ==
    edges # <<>> /\ current_depth < max_depth - 1

\* line 121 / 192
Descends(edges, max_depth, current_depth) ==
    edges # <<>> /\ (max_depth < 0 \/ current_depth < max_depth - 1)

\* lines 88, 96 / 163, 167
Connector(is_last) == IF is_last THEN Corner ELSE Tee

\* line 122 / 193
Extension(is_last) == IF is_last THEN Blank ELSE Guide

\* the comparison off by one: no entry is the last
IsLastDepOffByOne(i, edges) == i = Len(edges)

\* line 124 / 195, i counted from 0 as enumerate does
IsLastDep(i, edges) == i = Len(edges) - 1

Line(f, status, count) ==
    [prefix |-> f.prefix, connector |-> Connector(f.is_last), package |-> f.package,
     status |-> status, count |-> count, depth |-> f.current_depth]

\* the recursive call without its visited argument: the callee starts from set()
ChildFrameFreshVisited(f, dep, is_last_dep) ==
    [package |-> dep,
     prefix |-> Append(f.prefix, IF f.is_last THEN Blank ELSE Guide),
     is_last |-> is_last_dep,
     visited |-> {},
     current_depth |-> f.current_depth + 1,
     at |-> "enter", i |-> 0]

\* the activation started by the call of lines 125-135 / 196-206
ChildFrame(f, dep, is_last_dep) ==
    [package |-> dep,
     prefix |-> Append(f.prefix, Extension(f.is_last)),
     is_last |-> is_last_dep,
     visited |-> f.visited,              \* visited.copy()
     current_depth |-> f.current_depth + 1,
     at |-> "enter", i |-> 0]

\* `visited: Set[str] = set()` as the default: one set for every call, which still
\* holds the package an earlier call added
RootFrameSharedDefault(package) ==
    [package |-> package, prefix |-> <<>>, is_last |-> TRUE,
     visited |-> IF /\ first.op # "none"
                    /\ first.answer.op \in {"print_tree", "print_reverse_tree"}
                    /\ first.answer.out # <<>>
                    /\ first.answer.out[1].status = "found"
                 THEN {first.answer.package}
                 ELSE {},
     current_depth |-> 0, at |-> "enter", i |-> 0]

\* the activation started by main, lines 450-465: the defaults of the signature, and
\* the fresh set of lines 73-74
RootFrame(package) ==
    [package |-> package, prefix |-> <<>>, is_last |-> TRUE, visited |-> {},
     current_depth |-> 0, at |-> "enter", i |-> 0]

Top == stack[Len(stack)]
Popped == SubSeq(stack, 1, Len(stack) - 1)
Replaced(f) == [stack EXCEPT ![Len(stack)] = f]

---------------------------------------------------------------------------
(* Input lists.                                                            *)

\* the lists of at most n names
Lists(names, n) == UNION {[1..k -> names] : k \in 0..n}

\* The ways to cut a list of e names into k edge lists: the k - 1 places of the cuts.
Cuts(k, e) ==
    IF k = 0 THEN (IF e = 0 THEN {<<>>} ELSE {})
    ELSE {c \in [1..(k - 1) -> 0..e] : \A i \in 1..(k - 2) : c[i] <= c[i + 1]}

\* the i-th of the k edge lists cut out of flat
Part(flat, cuts, k, i) ==
    SubSeq(flat, (IF i = 1 THEN 0 ELSE cuts[i - 1]) + 1, IF i = k THEN Len(flat) ELSE cuts[i])

\* an entry as brew-info.py writes it for a formula (get_formula_info)
Formula(name, deps, rdeps) ==
    [name |-> name, type |-> "formula", description |-> "d",
     version |-> IF name = A THEN "1.0" ELSE "2.0",
     dependencies |-> deps, required_by |-> rdeps, status |-> "success"]

\* the record brew-info.py writes when the query raised (process_package)
ErrorRecord(name) ==
    [name |-> name, type |-> "formula", status |-> "error", error |-> "timeout"]

Without(d, field) == [f \in DOMAIN d \ {field} |-> d[f]]

\* Heterogeneous entries: a full entry, the same with one field missing or with an
\* empty name, and the error record.
RawEntries ==
    LET full == {Formula(n, <<B>>, <<A>>) : n \in {A, B}}
    IN  full
        \cup {Without(e, f) : e \in full,
                f \in {"name", "description", "version", "dependencies", "required_by"}}
        \cup {[e EXCEPT !.name = <<>>] : e \in full}
        \cup {ErrorRecord(n) : n \in {A, B}}

RawInputs == UNION {[1..k -> RawEntries] : k \in 0..MaxEntries}

\* An input for the rankings: any names in any order, repeated names included, with
\* forward edges to names that may or may not be keys.
RankInput(ns, flat, cuts) ==
    [i \in 1..Len(ns) |-> Formula(ns[i], Part(flat, cuts, Len(ns), i), <<>>)]

\* the names of a set in ascending order
RECURSIVE Ascending(_)
Ascending(S) ==
    IF S = {} THEN <<>>
    ELSE LET m == CHOOSE x \in S : \A y \in S \ {x} : StrLess(x, y)
         IN  <<m>> \o Ascending(S \ {m})

\* An input for the trees: one entry per key, the edges either all forward or all
\* reverse, to names that may or may not be keys.
TreeInput(ns, flat, cuts, forward) ==
    [i \in 1..Len(ns) |->
        IF forward THEN Formula(ns[i], Part(flat, cuts, Len(ns), i), <<>>)
        ELSE Formula(ns[i], <<>>, Part(flat, cuts, Len(ns), i))]

NoCall == [op |-> "none", package |-> <<>>, max_depth |-> -1]
NoRet == [op |-> "none"]
NoFirst == [op |-> "none"]
NoBatch == [pc |-> "off"]

\* the process before main builds the graph
Fresh ==
    /\ graph = EmptyDict
    /\ pc = "start"
    /\ stack = <<>>
    /\ out = <<>>
    /\ call = NoCall
    /\ err = "none"
    /\ ret = NoRet
    /\ first = NoFirst
    /\ batch = NoBatch

\* main, lines 399-407: the graph is built once, before the query of the run.  A run
\* of main answers one query: a tree, a list of roots or leaves, or the statistics.
Build ==
    /\ pc = "start"
    /\ graph' = build_dependency_graph(formulas)
    /\ pc' = "idle"
    /\ UNCHANGED <<batch, first, formulas, stack, out, call, err, ret>>

FindRoots ==
    /\ pc = "idle"
    /\ ret' = [op |-> "find_root_packages", value |-> find_root_packages(graph)]
    /\ pc' = "done"
    /\ UNCHANGED <<batch, first, formulas, graph, stack, out, call, err>>

FindLeaves ==
    /\ pc = "idle"
    /\ ret' = [op |-> "find_leaf_packages", value |-> find_leaf_packages(graph)]
    /\ pc' = "done"
    /\ UNCHANGED <<batch, first, formulas, graph, stack, out, call, err>>

MostDependedOn ==
    /\ pc = "idle"
    /\ \E n \in 0..MaxTopN :
          ret' = [op |-> "find_most_depended_on", top_n |-> n,
                  value |-> find_most_depended_on(graph, n)]
    /\ pc' = "done"
    /\ UNCHANGED <<batch, first, formulas, graph, stack, out, call, err>>

MostDependencies ==
    /\ pc = "idle"
    /\ \E n \in 0..MaxTopN :
          ret' = [op |-> "find_most_dependencies", top_n |-> n,
                  value |-> find_most_dependencies(graph, n)]
    /\ pc' = "done"
    /\ UNCHANGED <<batch, first, formulas, graph, stack, out, call, err>>

PrintStatistics ==
    /\ pc = "idle"
    /\ ret' = [op |-> "print_statistics", value |-> print_statistics(graph)]
    /\ pc' = "done"
    /\ UNCHANGED <<batch, first, formulas, graph, stack, out, call, err>>

PrintTree ==
    /\ pc = "idle"
    /\ \E package \in TreeNames, max_depth \in -2..MaxDepthArg :
          /\ call' = [op |-> "print_tree", package |-> package, max_depth |-> max_depth]
          /\ stack' = <<RootFrame(package)>>
    /\ out' = <<>>
    /\ err' = "none"
    /\ pc' = "tree"
    /\ UNCHANGED <<batch, first, formulas, graph, ret>>

PrintReverseTree ==
    /\ pc = "idle"
    /\ \E package \in TreeNames, max_depth \in -2..MaxDepthArg :
          /\ call' = [op |-> "print_reverse_tree", package |-> package,
                       max_depth |-> max_depth]
          /\ stack' = <<RootFrame(package)>>
    /\ out' = <<>>
    /\ err' = "none"
    /\ pc' = "tree"
    /\ UNCHANGED <<batch, first, formulas, graph, ret>>

\* the innermost activation returns
Return ==
    /\ stack' = Popped
    /\ pc' = IF Len(stack) = 1 THEN "done" ELSE "tree"
    /\ err' = err

\* an exception leaves every activation
Raise(exception) ==
    /\ stack' = <<>>
    /\ pc' = "done"
    /\ err' = exception

\* An activation from its entry to its first call or its return: lines 73-122 / 150-193.
Enter ==
    /\ pc = "tree"
    /\ Top.at = "enter"
    /\ LET f == Top IN
       IF DepthReached(call.max_depth, f.current_depth)
       THEN Return /\ out' = out
       ELSE IF NotInGraph(graph, f.package)
       THEN Return /\ out' = Append(out, Line(f, "not found", 0))
       ELSE IF f.package \notin DOMAIN graph.rec          \* graph[package] of line 97 / 168
       THEN Raise("KeyError") /\ out' = out
       ELSE IF IsCircular(f.package, f.visited)
       THEN Return /\ out' = Append(out, Line(f, "circular", 0))
       ELSE LET edges == Edges(graph, call.op, f.package) IN
            /\ out' = Append(out, Line(f, "found", Len(edges)))
            /\ IF Descends(edges, call.max_depth, f.current_depth)
               THEN /\ stack' = Replaced([f EXCEPT !.visited = Visit(f.visited, f.package),
                                                  !.at = "loop"])
                    /\ pc' = "tree"
                    /\ err' = err
               ELSE Return
    /\ UNCHANGED <<batch, first, formulas, graph, call, ret>>

\* One turn of the loop of lines 123-135 / 194-206: the call for the next entry of the
\* edge list, or the return when the list is exhausted.
Loop ==
    /\ pc = "tree"
    /\ Top.at = "loop"
    /\ LET f == Top
           edges == Edges(graph, call.op, f.package)
       IN  IF f.i < Len(edges)
           THEN /\ stack' = Append(Replaced([f EXCEPT !.i = f.i + 1]),
                                   ChildFrame(f, edges[f.i + 1], IsLastDep(f.i, edges)))
                /\ pc' = "tree"
                /\ err' = err
           ELSE Return
    /\ UNCHANGED <<batch, first, formulas, graph, out, call, ret>>

InitBuild == formulas \in RawInputs /\ Fresh
NextBuild == Build
SpecBuild == InitBuild /\ [][NextBuild]_vars

InitRank ==
    /\ \E ns \in Lists(RankNames, MaxEntries), flat \in Lists(RankNames, MaxEdges) :
          \E cuts \in Cuts(Len(ns), Len(flat)) : formulas = RankInput(ns, flat, cuts)
    /\ Fresh
NextRank ==
    \/ Build
    \/ FindRoots
    \/ FindLeaves
    \/ MostDependedOn
    \/ MostDependencies
    \/ PrintStatistics
SpecRank == InitRank /\ [][NextRank]_vars

Init ==
    /\ \E S \in SUBSET TreeNames, flat \in Lists(TreeNames, MaxEdges), forward \in BOOLEAN :
          \E cuts \in Cuts(Cardinality(S), Len(flat)) :
              formulas = TreeInput(Ascending(S), flat, cuts, forward)
    /\ Fresh
Next ==
    \/ Build
    \/ PrintTree
    \/ PrintReverseTree
    \/ Enter
    \/ Loop
Spec == Init /\ [][Next]_vars

\* A started traversal runs on: nothing in the functions waits.
FairSpec == Spec /\ WF_vars(Enter) /\ WF_vars(Loop)

---------------------------------------------------------------------------
(* Properties of build_dependency_graph.                                   *)

Named(i) == "name" \in DOMAIN formulas[i] /\ formulas[i]["name"] # <<>>

\* the last entry of the input that carries the name
LastEntry(name) ==
    formulas[CHOOSE i \in 1..Len(formulas) :
                /\ Named(i) /\ formulas[i]["name"] = name
                /\ \A j \in (i + 1)..Len(formulas) : ~(Named(j) /\ formulas[j]["name"] = name)]

\* C7: the keys of the built graph are exactly the non-empty names of the input;
\* entries without a usable name are dropped without error; of several entries with
\* one name the last is stored; absent fields become [] / [] / "" / "", so that an
\* error record (name, type, status, error) is a package without edges.
C7_BuildLastWriteWins ==
    pc # "start" =>
        /\ err = "none"
        /\ Keys(graph) = {formulas[i]["name"] : i \in {j \in 1..Len(formulas) : Named(j)}}
        /\ DOMAIN graph.rec = Keys(graph)
        /\ Cardinality(Keys(graph)) = Len(graph.keys)
        /\ \A k \in Keys(graph) :
              LET e == LastEntry(k)
                  r == graph.rec[k]
              IN  /\ r.dependencies =
                        IF "dependencies" \in DOMAIN e THEN e["dependencies"] ELSE <<>>
                  /\ r.required_by =
                        IF "required_by" \in DOMAIN e THEN e["required_by"] ELSE <<>>
                  /\ r.description =
                        IF "description" \in DOMAIN e THEN e["description"] ELSE ""
                  /\ r.version = IF "version" \in DOMAIN e THEN e["version"] ELSE ""
                  /\ DOMAIN e = {"name", "type", "status", "error"} =>
                        r = [dependencies |-> <<>>, required_by |-> <<>>,
                             description |-> "", version |-> ""]

\* a full entry overwritten by an error record of the same name
C7_Witness ==
    /\ pc = "idle"
    /\ formulas = <<Formula(A, <<B>>, <<A>>), ErrorRecord(A)>>
    /\ graph.keys = <<A>>
    /\ graph.rec[A].dependencies = <<>>

---------------------------------------------------------------------------
(* Properties of the analyses.                                             *)

StrictlyAscending(s) == \A i \in 1..(Len(s) - 1) : StrLess(s[i], s[i + 1])

Deps(k) == graph.rec[k].dependencies

\* no record of the graph lists the name as a dependency
NotDependedOn(name) == \A k \in Keys(graph) : \A i \in 1..Len(Deps(k)) : Deps(k)[i] # name

\* the graph {A: deps [], B: deps [A]}
IsRootScenario ==
    /\ Keys(graph) = {A, B}
    /\ Deps(A) = <<>>
    /\ Deps(B) = <<A>>

C9_RootsAndLeaves ==
    ret.op = "print_statistics" =>
        LET rts == ret.value.roots
            lvs == ret.value.leaves
        IN  /\ StrictlyAscending(lvs)
            /\ Range(lvs) = {k \in Keys(graph) : Len(Deps(k)) = 0}
            /\ \A p \in RankNames :
                  (p \in Range(rts) /\ p \in Range(lvs))
                  <=> (p \in Keys(graph) /\ Len(Deps(p)) = 0 /\ NotDependedOn(p))

\* an isolated package next to a root that is no leaf
C9_Witness ==
    /\ ret.op = "print_statistics"
    /\ \E p \in Keys(graph) : p \in Range(ret.value.roots) /\ p \in Range(ret.value.leaves)
    /\ \E p \in Keys(graph) : p \in Range(ret.value.roots) /\ p \notin Range(ret.value.leaves)

\* the dependencies lists of the graph, one after the other in the dict's order
RECURSIVE FlatDeps(_)
FlatDeps(keys) == IF keys = <<>> THEN <<>> ELSE Deps(Head(keys)) \o FlatDeps(Tail(keys))

Occurrences(name) ==
    Cardinality({i \in 1..Len(FlatDeps(graph.keys)) : FlatDeps(graph.keys)[i] = name})

FirstSeen(name) ==
    CHOOSE i \in 1..Len(FlatDeps(graph.keys)) :
        /\ FlatDeps(graph.keys)[i] = name
        /\ \A j \in 1..(i - 1) : FlatDeps(graph.keys)[j] # name

---------------------------------------------------------------------------
(* Properties of the traversals.  The tree is read off the printed lines:  *)
(* the lines below a line are those that follow it up to the next line of  *)
(* its depth or less.                                                      *)

\* the edge list of a key in the direction of the call
EdgeList(k) ==
    IF call.op = "print_tree" THEN graph.rec[k].dependencies ELSE graph.rec[k].required_by

Descendants(k) ==
    {c \in (k + 1)..Len(out) : \A b \in (k + 1)..c : out[b].depth > out[k].depth}

Children(k) == {c \in Descendants(k) : out[c].depth = out[k].depth + 1}

Ancestors(k) == {a \in 1..(k - 1) : k \in Descendants(a)}

\* the lines of a set, in print order
RECURSIVE InOrder(_)
InOrder(S) ==
    IF S = {} THEN <<>>
    ELSE LET m == CHOOSE x \in S : \A y \in S : x <= y
         IN  <<m>> \o InOrder(S \ {m})

ChildNames(k) == [i \in 1..Cardinality(Children(k)) |-> out[InOrder(Children(k))[i]].package]

IsPrefix(s, t) == Len(s) <= Len(t) /\ SubSeq(t, 1, Len(s)) = s

\* the depth bound lets the lines below a line of this depth through
Admits(depth) == call.max_depth < 0 \/ depth < call.max_depth

Finished == pc = "done" /\ call.op # "none"

\* 1 + L + L^2 + .. + L^K
RECURSIVE Geometric(_, _)
Geometric(L, K) == IF K = 0 THEN 1 ELSE 1 + L * Geometric(L, K - 1)

LongestList ==
    LET lens == {0} \cup {Len(EdgeList(k)) : k \in Keys(graph)}
    IN  CHOOSE n \in lens : \A m \in lens : m <= n

\* no exception, no activation deeper than the number of keys, and no more lines
\* than a tree of that depth and of the graph's widest fan-out has nodes
TraversalBounded ==
    /\ err = "none"
    /\ Len(stack) <= Cardinality(Keys(graph)) + 1
    /\ \A k \in 1..Len(out) : out[k].depth <= Cardinality(Keys(graph))
    /\ Len(out) <= Geometric(LongestList, Cardinality(Keys(graph)))

\* C1: on every built graph (cycles, self-loops, repeated entries, dangling names),
\* for every root, present or not, and every max_depth, print_tree and
\* print_reverse_tree raise nothing, print boundedly many lines and return.
C1_TreesTerminate ==
    /\ []TraversalBounded
    /\ (pc = "tree") ~> (pc = "done")

\* an unbounded traversal that met a cycle and a dangling name has returned
C1_Witness ==
    /\ Finished
    /\ call.max_depth = -1
    /\ \E k \in 1..Len(out) : out[k].status = "circular"
    /\ \E k \in 1..Len(out) : out[k].status = "not found"
    /\ Len(out) >= 4

\* C2: with max_depth >= 0 no printed node has depth >= max_depth; max_depth = 0
\* prints nothing, not even the root, and max_depth = 1 prints the root alone.
C2_DepthBound ==
    call.max_depth >= 0 =>
        /\ \A k \in 1..Len(out) : out[k].depth < call.max_depth
        /\ call.max_depth = 0 => out = <<>>
        /\ call.max_depth = 1 =>
              /\ Len(out) <= 1
              /\ \A k \in 1..Len(out) : out[k].package = call.package /\ out[k].depth = 0

\* max_depth = 1 on a root with two edges: the root is printed, its children are not
C2_Witness ==
    /\ Finished
    /\ call.max_depth = 1
    /\ Len(out) = 1
    /\ out[1].status = "found"
    /\ out[1].count = 2

\* C3: a node is printed as circular exactly when its name is a key and is the name
\* of one of its ancestors on the path from the root; a name printed before on
\* another branch, or repeated in one edge list, is printed as found again; and
\* nothing is printed below a circular node.
C3_CircularIffAncestor ==
    \A k \in 1..Len(out) :
        LET onPath == {out[a].package : a \in Ancestors(k)} IN
        /\ out[k].status = "circular"
             <=> (out[k].package \in Keys(graph) /\ out[k].package \in onPath)
        /\ (out[k].package \in Keys(graph) /\ out[k].package \notin onPath)
             => out[k].status = "found"
        /\ out[k].status = "circular" => Descendants(k) = {}

\* one traversal prints a circular node and prints one name as found twice
C3_Witness ==
    /\ Finished
    /\ \E k \in 1..Len(out) : out[k].status = "circular"
    /\ \E j, k \in 1..Len(out) :
          /\ j < k
          /\ out[j].package = out[k].package
          /\ out[j].status = "found"
          /\ out[k].status = "found"

\* the names reached from a set of names along dependencies edges
RECURSIVE ReachedFrom(_)
ReachedFrom(S) ==
    LET T == S \cup UNION {Range(graph.rec[k].dependencies) : k \in S \cap Keys(graph)}
    IN  IF T = S THEN S ELSE ReachedFrom(T)

\* C4: print_tree without a depth bound, from a root that is a key, prints exactly
\* the names reachable from the root along dependencies edges, the root included,
\* and on no path from the root is a name printed as found twice.
C4_ForwardReachable ==
    (Finished /\ call.op = "print_tree" /\ call.max_depth = -1
              /\ call.package \in Keys(graph)) =>
        /\ {out[k].package : k \in 1..Len(out)} = ReachedFrom({call.package})
        /\ \A k \in 1..Len(out) : \A a \in Ancestors(k) :
              (out[k].status = "found" /\ out[a].status = "found")
              => out[a].package # out[k].package

\* two names are reached round a cycle while a third key is not reached
C4_Witness ==
    /\ Finished /\ call.op = "print_tree" /\ call.max_depth = -1
    /\ call.package \in Keys(graph)
    /\ Cardinality({out[k].package : k \in 1..Len(out)}) = 2
    /\ Cardinality(Keys(graph)) = 3
    /\ \E k \in 1..Len(out) : out[k].status = "circular"

Shape(line) == <<line.package, line.depth, line.status>>

\* the graph {A: [B, C], B: [C], C: []}
IsDiamondScenario ==
    /\ Keys(graph) = {A, B, C}
    /\ graph.rec[A].dependencies = <<B, C>>
    /\ graph.rec[B].dependencies = <<C>>
    /\ graph.rec[C].dependencies = <<>>

\* C5: the lines come in depth-first pre-order: a node before everything below it,
\* the whole subtree of an entry of an edge list before the next entry, the children
\* in the order of the record's list, neither sorted nor de-duplicated; for
\* {A: [B, C], B: [C], C: []} the forward lines from A are A(0) B(1) C(2) C(1), all found.
C5_PreOrder ==
    /\ \A k \in 1..Len(out) : (out[k].depth = 0) <=> (k = 1)
    /\ \A k \in 2..Len(out) : out[k].depth <= out[k - 1].depth + 1
    /\ \A k \in 1..Len(out) :
          IF out[k].status = "found"
          THEN /\ IsPrefix(ChildNames(k), EdgeList(out[k].package))
               /\ Finished =>
                     ChildNames(k) = IF Admits(out[k].depth + 1)
                                     THEN EdgeList(out[k].package) ELSE <<>>
          ELSE Children(k) = {}
    /\ (Finished /\ IsDiamondScenario /\ call.op = "print_tree"
                  /\ call.package = A /\ call.max_depth = -1) =>
          [k \in 1..Len(out) |-> Shape(out[k])]
            = << <<A, 0, "found">>, <<B, 1, "found">>, <<C, 2, "found">>, <<C, 1, "found">> >>

\* the forward tree of the scenario from A, in full
C5_Witness ==
    /\ Finished /\ IsDiamondScenario
    /\ call = [op |-> "print_tree", package |-> A, max_depth |-> -1]
    /\ Len(out) = 4

\* C6: a name that is no key, reached at a depth the bound admits, is printed once
\* as not found, with nothing below it and no exception, and the entries after it
\* in the edge list are still printed; an unknown root gives one not-found line.
C6_NotFound ==
    /\ err = "none"
    /\ \A k \in 1..Len(out) :
          /\ out[k].status = "not found" <=> out[k].package \notin Keys(graph)
          /\ out[k].status = "not found" => Descendants(k) = {}
          /\ (Finished /\ out[k].status = "found" /\ Admits(out[k].depth + 1)) =>
                /\ Cardinality(Children(k)) = Len(EdgeList(out[k].package))
                /\ \A i \in 1..Len(ChildNames(k)) :
                      ChildNames(k)[i] = EdgeList(out[k].package)[i]
    /\ (Finished /\ call.package \notin Keys(graph) /\ call.max_depth # 0) =>
          /\ Len(out) = 1
          /\ Shape(out[1]) = <<call.package, 0, "not found">>

\* a not-found line is followed by the line of the next entry of the same edge list
C6_Witness ==
    /\ Finished
    /\ \E k \in 1..(Len(out) - 1) :
          /\ out[k].status = "not found"
          /\ out[k + 1].depth = out[k].depth
          /\ out[k + 1].status = "found"

---------------------------------------------------------------------------
(* brew-info.py: the batch that queries every installed package.           *)
(*                                                                         *)
(* A task is the future of one submitted package, named by its place in    *)
(* formulas followed by casks.  batch holds the run of main: the installed *)
(* names, --max-workers, the number of tasks submitted, the executor's     *)
(* queue, the tasks a worker runs, what brew did for each finished task    *)
(* (query) and what process_package returned for it (result), the futures  *)
(* finished and not yet yielded by as_completed (pending), the tasks       *)
(* yielded so far in the order of their turns of the loop (yielded; its    *)
(* length is the counter completed), the two lists and the report.         *)

MaxPackages == 2    \* installed packages, formulas and casks together
MaxWorkers == 2     \* largest --max-workers tried (the smallest is 1)

InfoNames == {A, B}

\* What subprocess.run does for one brew command: it exits with status 0 and prints
\* its JSON, exits with another status, runs into the timeout of line 32, or raises an
\* OSError because brew cannot be started.
Outcomes == {"ok", "nonzero", "timeout", "oserror"}

\* lines 28-36: TimeoutExpired is caught, an OSError is no SubprocessError and leaves
run_command(outcome) ==
    CASE outcome = "ok" -> [success |-> TRUE, output |-> "json"]
      [] outcome = "nonzero" -> [success |-> FALSE, output |-> ""]
      [] outcome = "timeout" -> [success |-> FALSE, output |-> ""]
      [] outcome = "oserror" -> [exception |-> "OSError"]

Raises(r) == "exception" \in DOMAIN r

\* lines 50-82, for what `brew info` and `brew uses` did
get_formula_info(package, info_outcome, uses_outcome) ==
    LET info == [name |-> package, type |-> "formula", description |-> "",
                 dependencies |-> <<>>, required_by |-> <<>>, homepage |-> "",
                 version |-> "", status |-> "success"]
        got == run_command(info_outcome)
        uses == run_command(uses_outcome)
    IN  IF Raises(got) THEN got
        ELSE LET filled == IF got.success /\ got.output # ""
                           THEN [info EXCEPT !.description = "d", !.homepage = "h",
                                             !.version = "1.0", !.dependencies = <<B>>]
                           ELSE info
             IN  IF Raises(uses) THEN uses
                 ELSE IF uses.success /\ uses.output # ""
                 THEN [filled EXCEPT !.required_by = <<A>>]
                 ELSE filled

\* lines 85-109
get_cask_info(package, info_outcome) ==
    LET info == [name |-> package, type |-> "cask", description |-> "", homepage |-> "",
                 version |-> "", status |-> "success"]
        got == run_command(info_outcome)
    IN  IF Raises(got) THEN got
        ELSE IF got.success /\ got.output # ""
        THEN [info EXCEPT !.description = "d", !.homepage = "h", !.version = "1.0"]
        ELSE info

\* lines 112-125
process_package(package, is_cask, query) ==
    LET info == IF is_cask THEN get_cask_info(package, query[1])
                ELSE get_formula_info(package, query[1], query[2])
    IN  IF Raises(info)
        THEN [name |-> package, type |-> IF is_cask THEN "cask" ELSE "formula",
              status |-> "error", error |-> info.exception]
        ELSE info

\* the sort left out
SortOmitted(infos) == infos

\* list.sort(key=lambda x: x["name"]) is a stable sort by name: lines 274-275
RECURSIVE InsertInfo(_, _)
InsertInfo(x, s) ==
    IF s = <<>> THEN <<x>>
    ELSE IF ~StrLess(Head(s).name, x.name) THEN <<x>> \o s
    ELSE <<Head(s)>> \o InsertInfo(x, Tail(s))

RECURSIVE InsertAllInfos(_)
InsertAllInfos(s) ==
    IF s = <<>> THEN <<>> ELSE InsertInfo(Head(s), InsertAllInfos(Tail(s)))

sort_by_name(infos) == InsertAllInfos(infos)

\* lines 280-289, without the time stamp
output_data(formula_infos, cask_infos) ==
    [summary |-> [total_formulas |-> Len(formula_infos),
                  total_casks |-> Len(cask_infos),
                  total_packages |-> Len(formula_infos) + Len(cask_infos)],
     formulas |-> formula_infos,
     casks |-> cask_infos]

Packages == batch.formulas \o batch.casks
Tasks == 1..Len(Packages)

\* future_to_package[future], lines 247 and 251
PkgType(t) == IF t <= Len(batch.formulas) THEN "formula" ELSE "cask"

\* what brew does for the two commands of a formula, or the one command of a cask
Queries(t) ==
    IF PkgType(t) = "cask" THEN {<<o>> : o \in Outcomes} ELSE Outcomes \X Outcomes

NoReport == [summary |-> "none"]

\* main after get_installed_packages, lines 227-239
InitInfo ==
    /\ \E fs \in Lists(InfoNames, MaxPackages), w \in 1..MaxWorkers :
          \E cs \in Lists(InfoNames, MaxPackages - Len(fs)) :
              batch = [pc |-> "start", formulas |-> fs, casks |-> cs, max_workers |-> w,
                       submitted |-> 0, queue |-> <<>>, running |-> {}, query |-> <<>>,
                       result |-> <<>>, pending |-> {}, yielded |-> <<>>,
                       formula_infos |-> <<>>, cask_infos |-> <<>>, report |-> NoReport]
    /\ formulas = <<>>
    /\ graph = EmptyDict
    /\ pc = "start"
    /\ stack = <<>>
    /\ out = <<>>
    /\ call = NoCall
    /\ err = "none"
    /\ ret = NoRet
    /\ first = NoFirst

\* lines 229-233: nothing installed ends the run
FoundPackages ==
    /\ batch.pc = "start"
    /\ batch' = [batch EXCEPT !.pc = IF Packages = <<>> THEN "exit" ELSE "submit"]
    /\ UNCHANGED <<formulas, graph, pc, stack, out, call, err, ret, first>>

\* executor.submit, lines 245-251: the formulas first, then the casks
Submit ==
    /\ batch.pc = "submit"
    /\ LET t == batch.submitted + 1 IN
       batch' = [batch EXCEPT !.submitted = t,
                              !.queue = Append(@, t),
                              !.pc = IF t = Len(Packages) THEN "collect" ELSE "submit"]
    /\ UNCHANGED <<formulas, graph, pc, stack, out, call, err, ret, first>>

\* a worker thread of the pool takes the oldest queued task
Start ==
    /\ batch.queue # <<>>
    /\ Cardinality(batch.running) < batch.max_workers
    /\ batch' = [batch EXCEPT !.queue = Tail(@), !.running = @ \cup {Head(batch.queue)}]
    /\ UNCHANGED <<formulas, graph, pc, stack, out, call, err, ret, first>>

\* a running process_package returns: its future is done
Finish ==
    /\ \E t \in batch.running : \E q \in Queries(t) :
          batch' = [batch EXCEPT
                       !.running = @ \ {t},
                       !.query = @ @@ (t :> q),
                       !.result = @ @@ (t :> process_package(Packages[t],
                                                             PkgType(t) = "cask", q)),
                       !.pending = @ \cup {t}]
    /\ UNCHANGED <<formulas, graph, pc, stack, out, call, err, ret, first>>

\* One turn of the loop of lines 257-269: as_completed yields a finished future, in no
\* order the code fixes, and its record goes to the list of its kind.
Collect ==
    /\ batch.pc = "collect"
    /\ \E t \in batch.pending :
          LET info == batch.result[t] IN
          batch' = [batch EXCEPT
                       !.pending = @ \ {t},
                       !.yielded = Append(@, t),
                       !.formula_infos = IF PkgType(t) = "formula" THEN Append(@, info)
                                         ELSE @,
                       !.cask_infos = IF PkgType(t) = "formula" THEN @
                                      ELSE Append(@, info)]
    /\ UNCHANGED <<formulas, graph, pc, stack, out, call, err, ret, first>>

\* lines 271-289, after the last future was yielded: the lists are sorted and reported
Report ==
    /\ batch.pc = "collect"
    /\ Len(batch.yielded) = Len(Packages)
    /\ LET fs == sort_by_name(batch.formula_infos)
           cs == sort_by_name(batch.cask_infos)
       IN  batch' = [batch EXCEPT !.pc = "reported", !.formula_infos = fs,
                                  !.cask_infos = cs, !.report = output_data(fs, cs)]
    /\ UNCHANGED <<formulas, graph, pc, stack, out, call, err, ret, first>>

NextInfo ==
    \/ FoundPackages
    \/ Submit
    \/ Start
    \/ Finish
    \/ Collect
    \/ Report
SpecInfo == InitInfo /\ [][NextInfo]_vars

---------------------------------------------------------------------------
(* Failing queries in the batch.                                           *)

Reported == batch.pc = "reported"

\* brew did not answer one of the commands run for task t
QueryFailed(t) == \E i \in DOMAIN batch.query[t] : batch.query[t][i] # "ok"

\* the list of the report a task's record belongs to
ReportList(t) ==
    IF t <= Len(batch.formulas) THEN batch.report.formulas ELSE batch.report.casks

\* C11: when the query of a package times out or fails the run goes on, every package
\* is in the report, and the record of the failing package has status "error".
C11_FailuresSurfaceAsErrors ==
    Reported =>
        /\ batch.report.summary.total_packages = Len(Packages)
        /\ \A t \in Tasks :
              /\ \E i \in DOMAIN ReportList(t) : ReportList(t)[i] = batch.result[t]
              /\ QueryFailed(t) => batch.result[t].status = "error"

\* a report with a record of each kind: a formula whose `brew info` timed out beside
\* one that brew answered
C11_Witness ==
    /\ Reported
    /\ \E t, u \in Tasks :
          /\ batch.query[t] = <<"timeout", "ok">>
          /\ batch.query[u] = <<"ok", "ok">>

---------------------------------------------------------------------------
(* Several calls on one graph.                                             *)
(*                                                                         *)
(* The functions are also an interface: print_statistics itself makes four *)
(* analysis calls in a row on the graph it is given.  Here a caller makes  *)
(* any number of calls, one after the other, and may keep one answer       *)
(* (with the graph as it was then) to compare later calls with.            *)

MaxCallEdges == 2   \* edge-list items of the input, both entries together

\* what the finished call was and gave: a traversal's lines, or an analysis' value
Answer ==
    IF call.op # "none"
    THEN [op |-> call.op, package |-> call.package, max_depth |-> call.max_depth,
          out |-> out, err |-> err]
    ELSE ret

\* the function and the arguments of an answer
CallOf(answer) == [f \in DOMAIN answer \ {"value", "out", "err"} |-> answer[f]]

\* two entries A and B; each has its own dependencies, and the other's as its required_by
CallsInput(flat, cuts) ==
    [i \in 1..2 |-> Formula(<<A, B>>[i], Part(flat, cuts, 2, i), Part(flat, cuts, 2, 3 - i))]

InitCalls ==
    /\ \E flat \in Lists(InfoNames, MaxCallEdges) :
          \E cuts \in Cuts(2, Len(flat)) : formulas = CallsInput(flat, cuts)
    /\ Fresh

\* the caller has its answer and goes on to its next call
NextCall ==
    /\ pc = "done"
    /\ pc' = "idle"
    /\ first' \in {first} \cup
                  (IF first = NoFirst
                   THEN {[op |-> "kept", graph |-> graph, answer |-> Answer]}
                   ELSE {})
    /\ call' = NoCall
    /\ out' = <<>>
    /\ err' = "none"
    /\ ret' = NoRet
    /\ UNCHANGED <<batch, formulas, graph, stack>>

NextCalls ==
    \/ Build
    \/ FindRoots
    \/ FindLeaves
    \/ MostDependedOn
    \/ MostDependencies
    \/ PrintStatistics
    \/ PrintTree
    \/ PrintReverseTree
    \/ Enter
    \/ Loop
    \/ NextCall
SpecCalls == InitCalls /\ [][NextCalls]_vars

\* the call that has just returned repeats the kept one
Repeats == pc = "done" /\ first # NoFirst /\ CallOf(Answer) = CallOf(first.answer)

---------------------------------------------------------------------------
(* The indentation and the connector of a printed line.                    *)

\* the ancestor of line k printed at depth j
AncestorAt(k, j) == CHOOSE a \in Ancestors(k) : out[a].depth = j

ParentOf(k) == AncestorAt(k, out[k].depth - 1)

\* line k is the root, or the line of the last entry of its parent's edge list: the
\* entries of a list are printed in order, one line each before whatever is below it
WasLast(k) ==
    \/ out[k].depth = 0
    \/ Cardinality({c \in Children(ParentOf(k)) : c <= k})
           = Len(EdgeList(out[ParentOf(k)].package))

\* C13: a line printed at depth d starts with d four-character segments, one per
\* ancestor from the root downwards, blank under an ancestor that was the last entry of
\* its parent's edge list (the root counts as last) and the guide otherwise; then comes
\* the corner connector if the node itself is such a last entry, the tee if not.
C13_PrefixAndConnector ==
    \A k \in 1..Len(out) :
        /\ Len(out[k].prefix) = out[k].depth
        /\ \A j \in 1..out[k].depth :
              /\ \E a \in Ancestors(k) : out[a].depth = j - 1
              /\ out[k].prefix[j] = IF WasLast(AncestorAt(k, j - 1)) THEN Blank ELSE Guide
        /\ out[k].connector \in {Corner, Tee}
        /\ out[k].connector = Corner <=> WasLast(k)

\* a line two levels down, under the root and under a first entry that is not the
\* last: blank, guide, corner
C13_Witness ==
    /\ Finished
    /\ \E k \in 1..Len(out) :
          /\ out[k].depth = 2
          /\ out[k].prefix = <<Blank, Guide>>
          /\ out[k].connector = Corner
          /\ out[ParentOf(k)].connector = Tee

---------------------------------------------------------------------------
(* The report of the batch under every interleaving.                       *)

NamesOf(infos) == [i \in DOMAIN infos |-> infos[i].name]

\* how many entries of a list are x
CountOf(s, x) == Cardinality({i \in DOMAIN s : s[i] = x})

\* what a name-sorted list of the given kind must hold: one record per installed name
OnePerPackage(infos, installed, kind) ==
    /\ Len(infos) = Len(installed)
    /\ \A i \in DOMAIN infos : infos[i].type = kind
    /\ \A n \in InfoNames : CountOf(NamesOf(infos), n) = CountOf(installed, n)

AscendingByName(infos) ==
    \A i \in 1..(Len(infos) - 1) : ~StrLess(infos[i + 1].name, infos[i].name)

Distinct(s) == \A i, j \in DOMAIN s : s[i] = s[j] => i = j

\* the task of an installed name, for lists without repeated names
TaskOf(installed, offset, n) == offset + CHOOSE i \in DOMAIN installed : installed[i] = n

\* C14: whatever --max-workers is and in whatever order the tasks finish, the report
\* has one record per installed formula in formulas and one per installed cask in
\* casks, none lost, none twice, none under the other kind; each list ascends by name;
\* total_packages is the sum of the two totals; and with distinct names each list is
\* the one list the inputs and brew's answers fix: the records of the names in
\* ascending order.
C14_ReportIndependentOfInterleaving ==
    Reported =>
        LET fs == batch.report.formulas
            cs == batch.report.casks
            summary == batch.report.summary
        IN  /\ OnePerPackage(fs, batch.formulas, "formula")
            /\ OnePerPackage(cs, batch.casks, "cask")
            /\ AscendingByName(fs) /\ AscendingByName(cs)
            /\ summary.total_formulas = Len(batch.formulas)
            /\ summary.total_casks = Len(batch.casks)
            /\ summary.total_packages = summary.total_formulas + summary.total_casks
            /\ Distinct(batch.formulas) =>
                  \A i \in DOMAIN fs :
                      fs[i] = batch.result[TaskOf(batch.formulas, 0, fs[i].name)]
            /\ Distinct(batch.casks) =>
                  \A i \in DOMAIN cs :
                      cs[i] = batch.result[TaskOf(batch.casks, Len(batch.formulas),
                                                  cs[i].name)]

\* two workers, formulas A and B: B's future was yielded first, and the report made
C14_Witness ==
    /\ Reported
    /\ batch.max_workers = 2
    /\ batch.formulas = <<A, B>>
    /\ batch.yielded = <<2, 1>>

====
